---- MODULE Spec2Model ----
(***************************************************************************)
(* pokecache.Cache: a map from string keys to timestamped byte payloads,   *)
(* guarded by a sync.RWMutex, with a background goroutine (reapLoop) that  *)
(* removes entries older than `interval` on every tick of a time.Ticker,   *)
(* and Stop, which closes stopChan.                                        *)
(*                                                                         *)
(* Processes: the caller goroutines (Callers) and the reaper goroutine.    *)
(* Every method is split at its synchronisation points: the call (where    *)
(* Add and reapExpired read the clock), Lock/RLock (announce and acquire), *)
(* the map access, and Unlock/RUnlock.  `now` is the wall clock; Tick      *)
(* advances it and delivers the ticker's ticks.                            *)
(***************************************************************************)
EXTENDS Integers, Sequences, FiniteSets, TLC

\* ---------------------------------------------------------------- bounds
\* The clock stops at MaxTime; under SpecTimed, where fewer interleavings
\* exist, at MaxTimeTimed.
MaxTime == 3
MaxTimeTimed == 5
\* Under SpecLive, which states fairness, the clock stops at MaxTimeLive.
MaxTimeLive == 2

\* ---------------------------------------------------------------- universe
\* main.go has one caller goroutine (the REPL); the package's tests add
\* worker goroutines that call Add, Get and Len concurrently.
Main == "main"
Workers == {"w1", "w2"}
Callers == {Main} \cup Workers
Reaper == "reaper"
Procs == Callers \cup {Reaper}
NoProc == "none"

\* The keys the REPL goroutine uses, and the key worker w uses in iteration
\* i of its loop ("key-%d-%d").
Keys == {"a", "b"}
NumOps == 1
WorkerKey(w, i) == w \o "-" \o ToString(i)
WorkerKeys == {WorkerKey(w, i) : w \in Workers, i \in 0..(NumOps - 1)}
AllKeys == Keys \cup WorkerKeys
Intervals == {2}
TimedIntervals == {1, 2}

\* A []byte: the nil slice, or a (possibly empty) sequence of bytes.
NilBytes == [isNil |-> TRUE, bytes |-> <<>>]
Bytes(s) == [isNil |-> FALSE, bytes |-> s]
EmptyBytes == Bytes(<<>>)
Values == {NilBytes, EmptyBytes, Bytes(<<1>>)}

\* Mutant of CacheEntry: the value is dropped.
CacheEntryNil(t, v) == [CreatedAt |-> t, Val |-> NilBytes]

\* Mutant of CacheEntry: CreatedAt is left at its zero value.
CacheEntryZero(t, v) == [CreatedAt |-> -1, Val |-> v]

\* CacheEntry{CreatedAt, Val}
CacheEntry(t, v) == [CreatedAt |-> t, Val |-> v]
\* The zero CacheEntry a map read yields for a missing key (time.Time{} is
\* before every clock reading).
ZeroTime == -1
ZeroEntry == CacheEntry(ZeroTime, NilBytes)

VARIABLES
    cache,      \* Cache.cache: a function from the present keys to CacheEntry
    interval,   \* Cache.interval
    mu,         \* Cache.mu: [writer, held, readers]
    stopChan,   \* Cache.stopChan: "open" or "closed"
    now,        \* the clock time.Now() reads
    tickerC,    \* ticker.C: the number of buffered ticks (capacity 1)
    nextTick,   \* the time the ticker fires next
    pc,         \* each goroutine's position
    key,        \* the key argument of the call in progress
    val,        \* the value argument of the Add in progress
    ce,         \* Add's local ce
    entry,      \* Get's locals entry, ok
    rnow,       \* reapExpired's local now
    todo,       \* reapExpired's range: the keys still to visit
    n,          \* Len's result
    cacheCopy,  \* GetCacheMap's local cacheCopy
    panicked,   \* a goroutine panicked: the process is gone
    hist,       \* history: per key, the entry of the last completed store
    snap,       \* history: the map a sweep found when it took the lock
    old,        \* history: the map an Add found when it stored
    prog,       \* TestCacheConcurrency: each worker's loop index j and next call
    nextURL,    \* config.nextURL
    previousURL,\* config.previousURL
    cmd,        \* the command in progress and its position
    url,        \* makeRequest's argument url
    body,       \* makeRequest's local body
    mr,         \* makeRequest's position, its results and its history
    text,       \* the line read from the prompt: cleanInput's argument
    res,        \* cleanInput's result
    swept       \* history: the last sweep's now, while no store followed it

\* The state of package main.
mainVars == <<nextURL, previousURL, cmd, url, body, mr, text, res>>

vars == <<cache, interval, mu, stopChan, now, tickerC, nextTick, pc, key, val, ce,
          entry, rnow, todo, n, cacheCopy, panicked, hist, snap, old, prog, mainVars,
          swept>>

\* ---------------------------------------------------------------- helpers
NoKey == "-"
NoHist == [set |-> FALSE, CreatedAt |-> ZeroTime, Val |-> NilBytes, reaped |-> FALSE]
NoSweep == [set |-> FALSE, now |-> 0]
NoEntry == [ok |-> FALSE, e |-> ZeroEntry]
EmptyMap == [k \in {} |-> ZeroEntry]

\* ---------------------------------------------------------------- package main
\* URLs are cache keys.  BaseURL is the first page of the location areas.
URLs == Keys
BaseURL == "a"
NilURL == "nil"

\* The bodies a response can carry, and what the server can answer.
Bodies == {EmptyBytes, Bytes(<<1>>), Bytes(<<2>>)}
Outcomes == {"request error", "bad status", "read error", "ok"}

\* No command and no request in progress.
NoCmd == [pc |-> "idle", name |-> "none", nextURL |-> NilURL, previousURL |-> NilURL]
NoPrev == [url |-> NoKey, data |-> NilBytes, ok |-> FALSE]
NoRequest == [pc |-> "idle", found |-> FALSE, data |-> NilBytes, err |-> "nil",
              requests |-> 0, before |-> EmptyMap, prev |-> NoPrev]

\* Mutant of MapStore: an existing entry is kept.
MapStoreKeep(m, k, e) ==
    [x \in DOMAIN m \cup {k} |-> IF x \in DOMAIN m THEN m[x] ELSE e]

\* Mutant of MapDelete: nothing is deleted.
MapDeleteNone(m, k) == m

\* Mutant of MapLookup: a missing key is reported found.
MapLookupFound(m, k) ==
    IF k \in DOMAIN m THEN [ok |-> TRUE, e |-> m[k]] ELSE [ok |-> TRUE, e |-> ZeroEntry]

\* Mutant of MapLookup: an entry older than interval is reported missing.
MapLookupFresh(m, k) ==
    IF k \in DOMAIN m /\ now - m[k].CreatedAt <= interval
    THEN [ok |-> TRUE, e |-> m[k]]
    ELSE [ok |-> FALSE, e |-> ZeroEntry]

\* Mutant of MapStore: the map is replaced by one that holds only the new entry.
MapStoreOnly(m, k, e) == [x \in {k} |-> e]

\* Mutant of MapStore: an existing entry gets the new value, not the new time.
MapStoreStamp(m, k, e) ==
    [x \in DOMAIN m \cup {k} |->
        IF x # k THEN m[x]
        ELSE IF k \in DOMAIN m THEN [e EXCEPT !.CreatedAt = m[k].CreatedAt]
        ELSE e]

\* c.cache[key] = ce
MapStore(m, k, e) == [x \in DOMAIN m \cup {k} |-> IF x = k THEN e ELSE m[x]]
\* delete(c.cache, key)
MapDelete(m, k) == [x \in DOMAIN m \ {k} |-> m[x]]
\* entry, ok := c.cache[key]
MapLookup(m, k) == IF k \in DOMAIN m THEN [ok |-> TRUE, e |-> m[k]] ELSE NoEntry

\* ---------------------------------------------------------------- sync.RWMutex
\* Lock first excludes other writers and new readers (announce), then waits
\* for the readers that hold the lock to leave (acquire).
MuFree == [writer |-> NoProc, held |-> FALSE, readers |-> {}]
CanAnnounce == mu.writer = NoProc
Announce(p) == [mu EXCEPT !.writer = p]
\* Mutant of CanAcquire: Lock does not wait for the readers to leave.
CanAcquireEarly(p) == mu.writer = p /\ ~mu.held
CanAcquire(p) == mu.writer = p /\ ~mu.held /\ mu.readers = {}
Acquire(p) == [mu EXCEPT !.held = TRUE]
\* Mutant of Unlock: the writer forgets to release the lock.
UnlockKeep(p) == mu
Unlock(p) == [mu EXCEPT !.writer = NoProc, !.held = FALSE]
\* Mutant of CanRLock: RLock does not wait for a writer.
CanRLockAlways == TRUE
CanRLock == mu.writer = NoProc
RLock(p) == [mu EXCEPT !.readers = @ \cup {p}]
RUnlock(p) == [mu EXCEPT !.readers = @ \ {p}]

\* ---------------------------------------------------------------- NewCache
NewCache(i) ==
    /\ cache = EmptyMap
    /\ interval = i
    /\ mu = MuFree
    /\ stopChan = "open"
    /\ pc = [p \in Procs |-> IF p = Reaper THEN "start" ELSE "idle"]

\* The state NewCache(i), for some i of I, returns in.
InitWith(I) ==
    /\ \E i \in I : NewCache(i)
    /\ now = 0
    /\ tickerC = 0
    /\ nextTick = 0
    /\ key = [p \in Procs |-> NoKey]
    /\ val = [p \in Procs |-> NilBytes]
    /\ ce = [p \in Procs |-> ZeroEntry]
    /\ entry = [p \in Procs |-> NoEntry]
    /\ rnow = [p \in Procs |-> 0]
    /\ todo = [p \in Procs |-> {}]
    /\ n = [p \in Procs |-> 0]
    /\ cacheCopy = [p \in Procs |-> EmptyMap]
    /\ panicked = FALSE
    /\ hist = [k \in AllKeys |-> NoHist]
    /\ snap = [p \in Procs |-> EmptyMap]
    /\ old = [p \in Procs |-> EmptyMap]
    /\ prog = [w \in Workers |-> [j |-> 0, next |-> "add"]]
    /\ nextURL = NilURL
    /\ previousURL = NilURL
    /\ cmd = NoCmd
    /\ url = NoKey
    /\ body = NilBytes
    /\ mr = NoRequest
    /\ text = <<>>
    /\ res = <<>>
    /\ swept = NoSweep

Init == InitWith(Intervals)

\* ---------------------------------------------------------------- the clock
TickerRunning == pc[Reaper] \notin {"start", "exited"}

\* Mutant of ClockTick: the ticker's period is twice the interval.
ClockTickSlow(horizon) ==
    /\ ~panicked
    /\ now < horizon
    /\ now' = now + 1
    /\ IF TickerRunning /\ now + 1 = nextTick
       THEN /\ tickerC' = 1
            /\ nextTick' = nextTick + 2 * interval
       ELSE UNCHANGED <<tickerC, nextTick>>
    /\ UNCHANGED <<cache, interval, cacheCopy, mu, stopChan, pc, key, val, ce, entry,
                   rnow, todo, n, panicked, hist, snap, old, prog, mainVars, swept>>

\* One unit of time passes; a running ticker whose time has come puts a tick
\* in its channel, or drops it when the buffered one was not received yet.
ClockTick(horizon) ==
    /\ ~panicked
    /\ now < horizon
    /\ now' = now + 1
    /\ IF TickerRunning /\ now + 1 = nextTick
       THEN /\ tickerC' = 1
            /\ nextTick' = nextTick + interval
       ELSE UNCHANGED <<tickerC, nextTick>>
    /\ UNCHANGED <<cache, interval, cacheCopy, mu, stopChan, pc, key, val, ce, entry,
                   rnow, todo, n, panicked, hist, snap, old, prog, mainVars, swept>>

Tick == ClockTick(MaxTime)

\* ---------------------------------------------------------------- Add
Call(t) == ~panicked /\ pc[t] = "idle"

AddCall(t, k, v) ==
    /\ Call(t)
    /\ key' = [key EXCEPT ![t] = k]
    /\ val' = [val EXCEPT ![t] = v]
    /\ ce' = [ce EXCEPT ![t] = CacheEntry(now, v)]
    /\ pc' = [pc EXCEPT ![t] = "add_lock"]
    /\ UNCHANGED <<cache, interval, cacheCopy, mu, stopChan, now, tickerC, nextTick,
                   entry, rnow, todo, n, panicked, hist, snap, old, swept>>

AddLock(t) ==
    /\ ~panicked /\ pc[t] = "add_lock"
    /\ CanAnnounce
    /\ mu' = Announce(t)
    /\ pc' = [pc EXCEPT ![t] = "add_lockwait"]
    /\ UNCHANGED <<cache, interval, cacheCopy, stopChan, now, tickerC, nextTick, key,
                   val, ce, entry, rnow, todo, n, panicked, hist, snap, old,
                   prog, mainVars, swept>>

AddAcquire(t) ==
    /\ ~panicked /\ pc[t] = "add_lockwait"
    /\ CanAcquire(t)
    /\ mu' = Acquire(t)
    /\ pc' = [pc EXCEPT ![t] = "add_store"]
    /\ UNCHANGED <<cache, interval, cacheCopy, stopChan, now, tickerC, nextTick, key,
                   val, ce, entry, rnow, todo, n, panicked, hist, snap, old,
                   prog, mainVars, swept>>

AddStore(t) ==
    /\ ~panicked /\ pc[t] = "add_store"
    /\ cache' = MapStore(cache, key[t], ce[t])
    /\ hist' = [hist EXCEPT ![key[t]] =
                   [set |-> TRUE, CreatedAt |-> ce[t].CreatedAt,
                    Val |-> val[t], reaped |-> FALSE]]
    /\ swept' = NoSweep
    /\ old' = [old EXCEPT ![t] = cache]
    /\ pc' = [pc EXCEPT ![t] = "add_unlock"]
    /\ UNCHANGED <<interval, cacheCopy, mu, stopChan, now, tickerC, nextTick, key, val,
                   ce, entry, rnow, todo, n, panicked, snap, prog, mainVars>>

AddUnlock(t) ==
    /\ ~panicked /\ pc[t] = "add_unlock"
    /\ mu' = Unlock(t)
    /\ pc' = [pc EXCEPT ![t] = "idle"]
    /\ key' = [key EXCEPT ![t] = NoKey]
    /\ val' = [val EXCEPT ![t] = NilBytes]
    /\ ce' = [ce EXCEPT ![t] = ZeroEntry]
    /\ old' = [old EXCEPT ![t] = EmptyMap]
    /\ UNCHANGED <<prog, mainVars>>
    /\ UNCHANGED <<cache, interval, cacheCopy, stopChan, now, tickerC, nextTick, entry,
                   rnow, todo, n, panicked, hist, snap, swept>>

\* ---------------------------------------------------------------- Get
GetCall(t, k) ==
    /\ Call(t)
    /\ key' = [key EXCEPT ![t] = k]
    /\ pc' = [pc EXCEPT ![t] = "get_rlock"]
    /\ UNCHANGED <<cache, interval, cacheCopy, mu, stopChan, now, tickerC, nextTick, val,
                   ce, entry, rnow, todo, n, panicked, hist, snap, old,
                   swept>>

GetRLock(t) ==
    /\ ~panicked /\ pc[t] = "get_rlock"
    /\ CanRLock
    /\ mu' = RLock(t)
    /\ pc' = [pc EXCEPT ![t] = "get_read"]
    /\ UNCHANGED <<cache, interval, cacheCopy, stopChan, now, tickerC, nextTick, key,
                   val, ce, entry, rnow, todo, n, panicked, hist, snap, old,
                   prog, mainVars, swept>>

\* Mutant of GetRead: reading an entry refreshes its timestamp.
GetReadTouch(t) ==
    /\ ~panicked /\ pc[t] = "get_read"
    /\ entry' = [entry EXCEPT ![t] = MapLookup(cache, key[t])]
    /\ cache' = IF key[t] \in DOMAIN cache
                THEN [cache EXCEPT ![key[t]].CreatedAt = now]
                ELSE cache
    /\ pc' = [pc EXCEPT ![t] = "get_runlock"]
    /\ UNCHANGED <<interval, cacheCopy, mu, stopChan, now, tickerC, nextTick, key,
                   val, ce, rnow, todo, n, panicked, hist, snap, old, prog, mainVars,
                   swept>>

GetRead(t) ==
    /\ ~panicked /\ pc[t] = "get_read"
    /\ entry' = [entry EXCEPT ![t] = MapLookup(cache, key[t])]
    /\ pc' = [pc EXCEPT ![t] = "get_runlock"]
    /\ UNCHANGED <<cache, interval, cacheCopy, mu, stopChan, now, tickerC, nextTick, key,
                   val, ce, rnow, todo, n, panicked, hist, snap, old, prog, mainVars,
                   swept>>

\* Mutant of GetResult: the stored value is returned as it is, nil included.
GetResultRaw(r) == IF ~r.ok THEN <<EmptyBytes, FALSE>> ELSE <<r.e.Val, TRUE>>

\* What Get returns for the entry and ok it read: <<value, found>>.
GetResult(r) ==
    IF ~r.ok THEN <<EmptyBytes, FALSE>>
    ELSE IF r.e.Val.isNil THEN <<EmptyBytes, TRUE>>
    ELSE <<r.e.Val, TRUE>>

\* RUnlock and return GetResult(entry[t]) to the caller.
GetReturn(t) ==
    /\ ~panicked /\ pc[t] = "get_runlock"
    /\ mu' = RUnlock(t)
    /\ pc' = [pc EXCEPT ![t] = "idle"]
    /\ key' = [key EXCEPT ![t] = NoKey]
    /\ entry' = [entry EXCEPT ![t] = NoEntry]
    /\ UNCHANGED <<cache, interval, cacheCopy, stopChan, now, tickerC, nextTick, val, ce,
                   rnow, todo, n, panicked, hist, snap, old, prog, swept>>

\* A Get whose caller does nothing with the result.
GetRUnlock(t) == GetReturn(t) /\ UNCHANGED mainVars

\* ---------------------------------------------------------------- Len
LenCall(t) ==
    /\ Call(t)
    /\ pc' = [pc EXCEPT ![t] = "len_rlock"]
    /\ UNCHANGED <<cache, interval, cacheCopy, mu, stopChan, now, tickerC, nextTick, key,
                   val, ce, entry, rnow, todo, n, panicked, hist, snap, old,
                   swept>>

LenRLock(t) ==
    /\ ~panicked /\ pc[t] = "len_rlock"
    /\ CanRLock
    /\ mu' = RLock(t)
    /\ pc' = [pc EXCEPT ![t] = "len_read"]
    /\ UNCHANGED <<cache, interval, cacheCopy, stopChan, now, tickerC, nextTick, key,
                   val, ce, entry, rnow, todo, n, panicked, hist, snap, old,
                   prog, mainVars, swept>>

\* return len(c.cache): the result is evaluated, then the deferred RUnlock runs.
LenRead(t) ==
    /\ ~panicked /\ pc[t] = "len_read"
    /\ n' = [n EXCEPT ![t] = Cardinality(DOMAIN cache)]
    /\ pc' = [pc EXCEPT ![t] = "len_runlock"]
    /\ UNCHANGED <<cache, interval, cacheCopy, mu, stopChan, now, tickerC, nextTick, key,
                   val, ce, entry, rnow, todo, panicked, hist, snap, old,
                   prog, mainVars, swept>>

LenRUnlock(t) ==
    /\ ~panicked /\ pc[t] = "len_runlock"
    /\ mu' = RUnlock(t)
    /\ pc' = [pc EXCEPT ![t] = "idle"]
    /\ n' = [n EXCEPT ![t] = 0]
    /\ UNCHANGED <<cache, interval, cacheCopy, stopChan, now, tickerC, nextTick, key,
                   val, ce, entry, rnow, todo, panicked, hist, snap, old,
                   prog, mainVars, swept>>

\* ---------------------------------------------------------------- GetCacheMap
MapCall(t) ==
    /\ Call(t)
    /\ pc' = [pc EXCEPT ![t] = "map_rlock"]
    /\ UNCHANGED <<cache, interval, cacheCopy, mu, stopChan, now, tickerC,
                   nextTick, key, val, ce, entry, rnow, todo, n, panicked,
                   hist, snap, old, swept>>

MapRLock(t) ==
    /\ ~panicked /\ pc[t] = "map_rlock"
    /\ CanRLock
    /\ mu' = RLock(t)
    /\ pc' = [pc EXCEPT ![t] = "map_copy"]
    /\ UNCHANGED <<cache, interval, cacheCopy, stopChan, now, tickerC,
                   nextTick, key, val, ce, entry, rnow, todo, n, panicked,
                   hist, snap, old, prog, mainVars, swept>>

\* for k, v := range c.cache { cacheCopy[k] = v }, under the read lock.
MapCopy(t) ==
    /\ ~panicked /\ pc[t] = "map_copy"
    /\ cacheCopy' = [cacheCopy EXCEPT ![t] = [k \in DOMAIN cache |-> cache[k]]]
    /\ pc' = [pc EXCEPT ![t] = "map_runlock"]
    /\ UNCHANGED <<cache, interval, mu, stopChan, now, tickerC, nextTick, key,
                   val, ce, entry, rnow, todo, n, panicked, hist, snap, old,
                   prog, mainVars, swept>>

\* The deferred RUnlock runs and cacheCopy[t] is returned.
MapRUnlock(t) ==
    /\ ~panicked /\ pc[t] = "map_runlock"
    /\ mu' = RUnlock(t)
    /\ pc' = [pc EXCEPT ![t] = "idle"]
    /\ cacheCopy' = [cacheCopy EXCEPT ![t] = EmptyMap]
    /\ UNCHANGED <<cache, interval, stopChan, now, tickerC, nextTick, key,
                   val, ce, entry, rnow, todo, n, panicked, hist, snap, old,
                   prog, mainVars, swept>>

\* ---------------------------------------------------------------- Stop
\* Mutant of Stop: stopping also clears the map.
StopClears(t) ==
    /\ Call(t)
    /\ stopChan' = "closed"
    /\ cache' = EmptyMap
    /\ UNCHANGED <<interval, cacheCopy, mu, now, tickerC, nextTick, pc, key, val, ce,
                   entry, rnow, todo, n, panicked, hist, snap, old, prog, mainVars,
                   swept>>

\* close(c.stopChan): closing a closed channel panics.
Stop(t) ==
    /\ Call(t)
    /\ IF stopChan = "closed"
       THEN panicked' = TRUE /\ UNCHANGED stopChan
       ELSE stopChan' = "closed" /\ UNCHANGED panicked
    /\ UNCHANGED <<cache, interval, cacheCopy, mu, now, tickerC, nextTick, pc, key, val,
                   ce, entry, rnow, todo, n, hist, snap, old, prog, mainVars, swept>>

\* ---------------------------------------------------------------- reapExpired
\* Mutant of Expired: an entry exactly one interval old is expired too.
ExpiredGE(e, at) == at - e.CreatedAt >= interval

\* Mutant of Expired: an entry expires only when older than two intervals.
ExpiredLate(e, at) == at - e.CreatedAt > 2 * interval

\* Expired(e, at): now.Sub(entry.CreatedAt) > c.interval
Expired(e, at) == at - e.CreatedAt > interval

\* The caller of reapExpired returns to its select (the reaper) or is done.
ReapReturn(p) == IF p = Reaper THEN "select" ELSE "idle"

\* Mutant of RangeKeys: the range stops after its first key.
RangeOne(m) == IF DOMAIN m = {} THEN {} ELSE {CHOOSE k \in DOMAIN m : TRUE}

\* for key, entry := range c.cache: the keys the range visits.
RangeKeys(m) == DOMAIN m

\* now := time.Now()
ReapNow(p) ==
    /\ ~panicked /\ pc[p] = "reap_now"
    /\ rnow' = [rnow EXCEPT ![p] = now]
    /\ pc' = [pc EXCEPT ![p] = "reap_lock"]
    /\ UNCHANGED <<cache, interval, cacheCopy, mu, stopChan, now, tickerC, nextTick, key,
                   val, ce, entry, todo, n, panicked, hist, snap, old, prog, mainVars,
                   swept>>

ReapLock(p) ==
    /\ ~panicked /\ pc[p] = "reap_lock"
    /\ CanAnnounce
    /\ mu' = Announce(p)
    /\ pc' = [pc EXCEPT ![p] = "reap_lockwait"]
    /\ UNCHANGED <<cache, interval, cacheCopy, stopChan, now, tickerC, nextTick, key,
                   val, ce, entry, rnow, todo, n, panicked, hist, snap, old,
                   prog, mainVars, swept>>

\* The lock is taken; the range over c.cache starts.
ReapAcquire(p) ==
    /\ ~panicked /\ pc[p] = "reap_lockwait"
    /\ CanAcquire(p)
    /\ mu' = Acquire(p)
    /\ todo' = [todo EXCEPT ![p] = RangeKeys(cache)]
    /\ snap' = [snap EXCEPT ![p] = cache]
    /\ pc' = [pc EXCEPT ![p] = "reap_range"]
    /\ UNCHANGED <<cache, interval, cacheCopy, stopChan, now, tickerC, nextTick, key,
                   val, ce, entry, rnow, n, panicked, hist, old, prog, mainVars, swept>>

\* One iteration of the range, over any key not visited yet (Go's map order
\* is unspecified): the entry is deleted when it is older than the interval.
ReapVisit(p) ==
    /\ ~panicked /\ pc[p] = "reap_range"
    /\ \E k \in todo[p] :
         /\ todo' = [todo EXCEPT ![p] = @ \ {k}]
         /\ IF k \in DOMAIN cache /\ Expired(cache[k], rnow[p])
            THEN /\ cache' = MapDelete(cache, k)
                 /\ hist' = [hist EXCEPT ![k].reaped = TRUE]
            ELSE UNCHANGED <<cache, hist>>
    /\ UNCHANGED <<interval, cacheCopy, mu, stopChan, now, tickerC, nextTick, pc, key,
                   val, ce, entry, rnow, n, panicked, snap, old, prog, mainVars, swept>>

\* The range is over: the deferred Unlock runs and reapExpired returns.
ReapUnlock(p) ==
    /\ ~panicked /\ pc[p] = "reap_range"
    /\ todo[p] = {}
    /\ mu' = Unlock(p)
    /\ swept' = [set |-> TRUE, now |-> rnow[p]]
    /\ pc' = [pc EXCEPT ![p] = ReapReturn(p)]
    /\ rnow' = [rnow EXCEPT ![p] = 0]
    /\ snap' = [snap EXCEPT ![p] = EmptyMap]
    /\ UNCHANGED <<cache, interval, cacheCopy, stopChan, now, tickerC, nextTick, key,
                   val, ce, entry, todo, n, panicked, hist, old, prog, mainVars>>

\* A direct call of reapExpired (the package's tests make one).
ReapCall(t) ==
    /\ Call(t)
    /\ pc' = [pc EXCEPT ![t] = "reap_now"]
    /\ UNCHANGED <<cache, interval, cacheCopy, mu, stopChan, now, tickerC, nextTick, key,
                   val, ce, entry, rnow, todo, n, panicked, hist, snap, old,
                   swept>>

\* ---------------------------------------------------------------- reapLoop
\* Mutant of ReapLoopStart: the ticker fires at once, then every interval.
ReapLoopStartNow ==
    /\ ~panicked /\ pc[Reaper] = "start"
    /\ nextTick' = now + interval
    /\ tickerC' = 1
    /\ pc' = [pc EXCEPT ![Reaper] = "select"]
    /\ UNCHANGED <<cache, interval, cacheCopy, mu, stopChan, now, key, val, ce, entry,
                   rnow, todo, n, panicked, hist, snap, old, prog, mainVars, swept>>

\* ticker := time.NewTicker(c.interval): the first tick is one interval away.
ReapLoopStart ==
    /\ ~panicked /\ pc[Reaper] = "start"
    /\ IF interval <= 0
       THEN panicked' = TRUE /\ UNCHANGED <<nextTick, pc>>
       ELSE /\ nextTick' = now + interval
            /\ pc' = [pc EXCEPT ![Reaper] = "select"]
            /\ UNCHANGED panicked
    /\ UNCHANGED <<cache, interval, cacheCopy, mu, stopChan, now, tickerC, key, val, ce,
                   entry, rnow, todo, n, hist, snap, old, prog, mainVars, swept>>

\* case <-c.stopChan: return (the deferred ticker.Stop() runs).
ReapLoopStop ==
    /\ ~panicked /\ pc[Reaper] = "select"
    /\ stopChan = "closed"
    /\ pc' = [pc EXCEPT ![Reaper] = "exited"]
    /\ tickerC' = 0
    /\ UNCHANGED <<cache, interval, cacheCopy, mu, stopChan, now, nextTick, key, val, ce,
                   entry, rnow, todo, n, panicked, hist, snap, old, prog, mainVars,
                   swept>>

\* Mutant of ReapLoopTick: the loop sweeps without waiting for a tick.
ReapLoopSpin ==
    /\ ~panicked /\ pc[Reaper] = "select"
    /\ tickerC' = 0
    /\ pc' = [pc EXCEPT ![Reaper] = "reap_now"]
    /\ UNCHANGED <<cache, interval, cacheCopy, mu, stopChan, now, nextTick, key, val, ce,
                   entry, rnow, todo, n, panicked, hist, snap, old, prog, mainVars,
                   swept>>

\* case <-ticker.C: c.reapExpired()
ReapLoopTick ==
    /\ ~panicked /\ pc[Reaper] = "select"
    /\ tickerC = 1
    /\ tickerC' = 0
    /\ pc' = [pc EXCEPT ![Reaper] = "reap_now"]
    /\ UNCHANGED <<cache, interval, cacheCopy, mu, stopChan, now, nextTick, key, val, ce,
                   entry, rnow, todo, n, panicked, hist, snap, old, prog, mainVars,
                   swept>>

\* ---------------------------------------------------------------- GetInterval
\* return c.interval
GetInterval == interval

\* ---------------------------------------------------------------- the methods
Add(p) ==
    \/ \E k \in Keys, v \in Values : AddCall(p, k, v) /\ UNCHANGED <<prog, mainVars>>
    \/ AddLock(p)
    \/ AddAcquire(p)
    \/ AddStore(p)
    \/ AddUnlock(p)

Get(p) ==
    \/ \E k \in Keys : GetCall(p, k) /\ UNCHANGED <<prog, mainVars>>
    \/ GetRLock(p)
    \/ GetRead(p)
    \/ GetRUnlock(p)

CacheLen(p) ==
    \/ LenCall(p) /\ UNCHANGED <<prog, mainVars>>
    \/ LenRLock(p)
    \/ LenRead(p)
    \/ LenRUnlock(p)

GetCacheMap(p) ==
    \/ MapCall(p) /\ UNCHANGED <<prog, mainVars>>
    \/ MapRLock(p)
    \/ MapCopy(p)
    \/ MapRUnlock(p)

reapExpired(p) ==
    \/ ReapNow(p)
    \/ ReapLock(p)
    \/ ReapAcquire(p)
    \/ ReapVisit(p)
    \/ ReapUnlock(p)

\* The loop while stopChan stays open.
reapLoopRunning ==
    \/ ReapLoopStart
    \/ ReapLoopTick
    \/ reapExpired(Reaper)

reapLoop ==
    \/ reapLoopRunning
    \/ ReapLoopStop

\* ---------------------------------------------------------------- Spec
\* The REPL goroutine calls Add, Get, Len and Stop in any order while the
\* reaper runs and time passes.
Next ==
    \/ Tick
    \/ Add(Main)
    \/ Get(Main)
    \/ CacheLen(Main)
    \/ Stop(Main)
    \/ reapLoop

Spec == Init /\ [][Next]_vars

\* ---------------------------------------------------------------- SpecReap
\* The caller also runs reapExpired itself, as the package's tests do.
NextReap ==
    \/ Tick
    \/ Add(Main)
    \/ ReapCall(Main) /\ UNCHANGED <<prog, mainVars>>
    \/ reapExpired(Main)
    \/ Stop(Main)
    \/ reapLoop

SpecReap == Init /\ [][NextReap]_vars

\* ---------------------------------------------------------------- SpecTimed
\* The reaper is never stopped, and calls and sweeps take no time: the clock
\* advances only while the caller is between calls and the reaper is blocked
\* in its select with no tick to receive.
Prompt ==
    /\ pc[Main] = "idle"
    /\ pc[Reaper] = "select" /\ tickerC = 0

TickTimed == Prompt /\ ClockTick(MaxTimeTimed)

NextTimed ==
    \/ TickTimed
    \/ Add(Main)
    \/ Get(Main)
    \/ reapLoopRunning

SpecTimed == InitWith(TimedIntervals) /\ [][NextTimed]_vars

\* ---------------------------------------------------------------- SpecWorkers
\* TestCacheConcurrency: every worker goroutine runs
\*   for j := 0; j < numOperationsPerGoroutine; j++ { Add(key, value); Get(key) }
\* on keys and values of its own, while the reaper runs; when all workers are
\* done the test's goroutine reads Len.
WorkerValue(w, i) == Bytes(<<IF w = "w1" THEN 1 ELSE 2, i>>)

WorkerAdd(w) ==
    /\ prog[w].next = "add" /\ prog[w].j < NumOps
    /\ AddCall(w, WorkerKey(w, prog[w].j), WorkerValue(w, prog[w].j))
    /\ prog' = [prog EXCEPT ![w].next = "get"]
    /\ UNCHANGED mainVars

WorkerGet(w) ==
    /\ prog[w].next = "get"
    /\ GetCall(w, WorkerKey(w, prog[w].j))
    /\ prog' = [prog EXCEPT ![w] = [j |-> @.j + 1, next |-> "add"]]
    /\ UNCHANGED mainVars

WorkerDone(w) == pc[w] = "idle" /\ prog[w].next = "add" /\ prog[w].j = NumOps

TestLen ==
    /\ \A w \in Workers : WorkerDone(w)
    /\ LenCall(Main)
    /\ UNCHANGED <<prog, mainVars>>

Worker(w) ==
    \/ WorkerAdd(w)
    \/ AddLock(w)
    \/ AddAcquire(w)
    \/ AddStore(w)
    \/ AddUnlock(w)
    \/ WorkerGet(w)
    \/ GetRLock(w)
    \/ GetRead(w)
    \/ GetRUnlock(w)

NextWorkers ==
    \/ Tick
    \/ \E w \in Workers : Worker(w)
    \/ TestLen
    \/ LenRLock(Main)
    \/ LenRead(Main)
    \/ LenRUnlock(Main)
    \/ reapLoopRunning

SpecWorkers == Init /\ [][NextWorkers]_vars

\* ================================================================ claims
\* The value a caller expects back for a stored value: nil reads as empty.
Norm(v) == IF v.isNil THEN EmptyBytes ELSE v
\* The entry the last completed store put under k.
HistEntry(k) == [CreatedAt |-> hist[k].CreatedAt, Val |-> hist[k].Val]
\* k was stored and no sweep has removed it since.
Live(k) == hist[k].set /\ ~hist[k].reaped
\* t has read the map in Get and is about to return GetResult(entry[t]).
GetDone(t) == pc[t] = "get_runlock"
\* p has finished the range of a sweep and still holds the lock.
SweepDone(p) == pc[p] = "reap_range" /\ todo[p] = {}
\* The age of entry e at clock reading `at`.
Age(e, at) == at - e.CreatedAt

\* C1: a Get of k that follows a completed Add(k, v), with no sweep having
\* removed k in between, returns (v, true), a nil v read back as empty.
C1_AddThenGet ==
    \A t \in Callers :
        GetDone(t) /\ Live(key[t]) =>
            GetResult(entry[t]) = <<Norm(hist[key[t]].Val), TRUE>>

C1_Witness ==
    /\ GetDone(Main) /\ Live(key[Main])
    /\ hist[key[Main]].Val = Bytes(<<1>>)

\* C2: a Get of a key that is not present, never inserted (as every key of
\* a new cache) or removed by a sweep, returns (empty of length 0, false).
C2_GetMissing ==
    /\ (\A k \in Keys : ~hist[k].set) => cache = EmptyMap
    /\ \A t \in Callers :
        GetDone(t) /\ ~Live(key[t]) =>
            /\ GetResult(entry[t]) = <<EmptyBytes, FALSE>>
            /\ Len(GetResult(entry[t])[1].bytes) = 0

C2_Witness == GetDone(Main) /\ ~hist[key[Main]].set

\* C3: the store of Add(k, v2) replaces the entry of k: the map holds
\* exactly the new entry under k, a Get would return (v2, true), every other
\* key is as it was, and the entry count grows only when k was absent.
C3_Overwrite ==
    \A t \in Callers :
        pc[t] = "add_unlock" =>
            /\ MapLookup(cache, key[t]).ok
            /\ cache[key[t]].Val = val[t]
            /\ cache[key[t]].CreatedAt = ce[t].CreatedAt
            /\ GetResult(MapLookup(cache, key[t])) = <<Norm(val[t]), TRUE>>
            /\ DOMAIN cache = DOMAIN old[t] \cup {key[t]}
            /\ \A k \in DOMAIN old[t] : k # key[t] => cache[k] = old[t][k]
            /\ Cardinality(DOMAIN cache) =
                 Cardinality(DOMAIN old[t]) + (IF key[t] \in DOMAIN old[t] THEN 0 ELSE 1)

C3_Witness ==
    /\ pc[Main] = "add_unlock"
    /\ key[Main] \in DOMAIN old[Main]
    /\ Norm(old[Main][key[Main]].Val) # Norm(val[Main])
    /\ Cardinality(DOMAIN cache) = 2

\* C4: whenever Get reports found, the value it returns is not nil; a nil
\* value stored under k is returned as (empty of length 0, true).
C4_NeverNil ==
    \A t \in Callers :
        GetDone(t) =>
            /\ GetResult(entry[t])[2] => ~GetResult(entry[t])[1].isNil
            /\ entry[t].ok /\ entry[t].e.Val.isNil =>
                 /\ GetResult(entry[t])[2]
                 /\ ~GetResult(entry[t])[1].isNil
                 /\ Len(GetResult(entry[t])[1].bytes) = 0

C4_Witness == GetDone(Main) /\ entry[Main].ok /\ entry[Main].e.Val.isNil

\* C5: a sweep leaves exactly the entries it found whose age, at the
\* sweep's now, is at most interval, each with its value and timestamp.
C5_SweepExact ==
    \A p \in Procs :
        SweepDone(p) =>
            cache = [k \in {x \in DOMAIN snap[p] : Age(snap[p][x], rnow[p]) <= interval}
                       |-> snap[p][k]]

C5_Witness ==
    /\ SweepDone(Reaper)
    /\ \E k1, k2 \in DOMAIN snap[Reaper] :
         /\ Age(snap[Reaper][k1], rnow[Reaper]) > interval
         /\ Age(snap[Reaper][k2], rnow[Reaper]) = interval

\* C6: with the reaper running and calls and sweeps taking no time, a Get of
\* an entry that is less than interval old finds it, and a Get later than
\* two intervals after the entry was added (and not added again) does not.
C6_ReapedAfterTwoIntervals ==
    \A t \in Callers :
        GetDone(t) /\ hist[key[t]].set =>
            /\ Age(HistEntry(key[t]), now) < interval =>
                 GetResult(entry[t]) = <<Norm(hist[key[t]].Val), TRUE>>
            /\ Age(HistEntry(key[t]), now) > 2 * interval =>
                 ~GetResult(entry[t])[2]

C6_Witness ==
    /\ GetDone(Main) /\ hist[key[Main]].set
    /\ interval = 2
    /\ Age(HistEntry(key[Main]), now) > 2 * interval
    /\ ~GetResult(entry[Main])[2]

\* C7: an entry that was stored and not overwritten is in the map, as
\* stored, for as long as its age is at most interval, and a Get of its key
\* returns (v, true).
C7_NoEarlyRemoval ==
    \A k \in Keys :
        hist[k].set /\ Age(HistEntry(k), now) <= interval =>
            /\ MapLookup(cache, k) = [ok |-> TRUE, e |-> HistEntry(k)]
            /\ \A t \in Callers :
                 GetDone(t) /\ key[t] = k =>
                     GetResult(entry[t]) = <<Norm(hist[k].Val), TRUE>>

\* A sweep has run on an entry exactly one interval old, which is still there.
C7_Witness ==
    \E k \in Keys :
        /\ hist[k].set /\ swept.set
        /\ swept.now = now
        /\ Age(HistEntry(k), now) = interval
        /\ k \in DOMAIN cache

\* The number of entries TestCacheConcurrency expects.
ExpectedEntries == Cardinality(Workers) * NumOps
\* The key and value of the iteration whose Get worker w is in.
OwnKey(w) == WorkerKey(w, prog[w].j - 1)
OwnValue(w) == WorkerValue(w, prog[w].j - 1)
\* Every entry the workers have stored is at most interval old.
AllFresh == \A k \in WorkerKeys : hist[k].set => Age(HistEntry(k), now) <= interval

\* C8 as stated: every worker's Get of the key it has just added returns its
\* own value, and the Len read after all workers are done is the number of
\* keys inserted.
C8_Original ==
    /\ \A w \in Workers :
         GetDone(w) => GetResult(entry[w]) = <<OwnValue(w), TRUE>>
    /\ pc[Main] = "len_runlock" => n[Main] = ExpectedEntries

\* C8 amended: the same, as long as the entries read or counted are at most
\* interval old: a worker's Get of the key it has just added returns its own
\* value, no store is lost, and Len is the number of keys inserted.
C8_DisjointWorkers ==
    /\ \A w \in Workers :
         GetDone(w) /\ Age(HistEntry(OwnKey(w)), now) <= interval =>
             /\ key[w] = OwnKey(w)
             /\ GetResult(entry[w]) = <<OwnValue(w), TRUE>>
    /\ \A w \in Workers, i \in 0..(NumOps - 1) :
         LET k == WorkerKey(w, i) IN
         hist[k].set /\ Age(HistEntry(k), now) <= interval =>
             MapLookup(cache, k).ok /\ cache[k].Val = WorkerValue(w, i)
    /\ pc[Main] = "len_runlock" /\ AllFresh => n[Main] = ExpectedEntries

C8_Witness ==
    /\ pc[Main] = "len_runlock" /\ AllFresh
    /\ n[Main] = ExpectedEntries
    /\ now > 0

\* C9 as stated: a sweep that follows a sweep, with no store in between,
\* removes nothing.
C9_Original ==
    \A p \in Procs : SweepDone(p) /\ swept.set => cache = snap[p]

\* C9 amended: a sweep that follows a sweep, with no store in between,
\* removes nothing when its now is not later than the first sweep's now;
\* otherwise it removes only entries that were at most interval old at the
\* first sweep's now and are older than interval at its own.
C9_SameNowIdempotent ==
    \A p \in Procs :
        SweepDone(p) /\ swept.set =>
            /\ rnow[p] <= swept.now => cache = snap[p]
            /\ \A k \in DOMAIN snap[p] :
                 /\ Age(snap[p][k], swept.now) <= interval
                 /\ k \notin DOMAIN cache => Age(snap[p][k], rnow[p]) > interval

C9_Witness ==
    /\ SweepDone(Main) /\ swept.set
    /\ rnow[Main] <= swept.now
    /\ \E k \in Keys : hist[k].reaped
    /\ DOMAIN cache # {}

\* C10 as stated: once Stop has returned, no entry is removed.
C10_Original ==
    [][stopChan = "closed" => \A k \in DOMAIN cache : k \in DOMAIN cache']_vars

\* C10 amended: Stop itself changes no entry; once the reaper has left its
\* loop it stays out, and every entry stays as it is, however old, unless an
\* Add stores its key again.
C10_StopKeepsEntries ==
    [][/\ stopChan = "open" /\ stopChan' = "closed" => cache' = cache
       /\ pc[Reaper] = "exited" =>
            /\ pc'[Reaper] = "exited"
            /\ \A k \in DOMAIN cache :
                 /\ k \in DOMAIN cache'
                 /\ \/ cache'[k] = cache[k]
                    \/ \E t \in Callers :
                         pc[t] = "add_store" /\ key[t] = k /\ cache'[k] = ce[t]]_vars

C10_Witness ==
    /\ pc[Reaper] = "exited"
    /\ \E k \in DOMAIN cache : Age(cache[k], now) > interval

\* C11 as stated: a second Stop never panics: once stopChan is closed, no
\* step makes the program panic.
C11_SecondStopNoPanic ==
    [][stopChan = "closed" /\ ~panicked => ~panicked']_vars

\* ---------------------------------------------------------------- SpecLive
\* Two caller goroutines call Add, Get and Len on one key while the reaper
\* runs and Stop is called at most once.  A goroutine that can take a step
\* is eventually scheduled, and a goroutine blocked in Lock or RLock gets the
\* lock once it is free often enough (sync.Mutex hands the lock to starving
\* waiters, and a pending writer holds back new readers): strong fairness of
\* every goroutine's steps.  A select whose stop case is ready again and
\* again eventually takes it (Go chooses among the ready cases at random).
\* Calls themselves and the clock are not forced.
LiveCallers == {Main, "w1"}
LiveKey == "a"
LiveValue == Bytes(<<1>>)
LiveIntervals == {1}

LiveCall(p) ==
    /\ \/ AddCall(p, LiveKey, LiveValue)
       \/ GetCall(p, LiveKey)
       \/ LenCall(p)
    /\ UNCHANGED <<prog, mainVars>>

\* The steps of a call in progress.
CallSteps(p) ==
    \/ AddLock(p) \/ AddAcquire(p) \/ AddStore(p) \/ AddUnlock(p)
    \/ GetRLock(p) \/ GetRead(p) \/ GetRUnlock(p)
    \/ LenRLock(p) \/ LenRead(p) \/ LenRUnlock(p)

\* Stop, called by a caller that keeps to the single-call discipline.
StopOnce(t) == stopChan = "open" /\ Stop(t)

TickLive == ClockTick(MaxTimeLive)

NextLive ==
    \/ TickLive
    \/ \E p \in LiveCallers : LiveCall(p)
    \/ \E p \in LiveCallers : CallSteps(p)
    \/ StopOnce(Main)
    \/ reapLoop

Fairness ==
    /\ \A p \in LiveCallers : SF_vars(CallSteps(p))
    /\ SF_vars(reapLoop)
    /\ SF_vars(ReapLoopStop)

SpecLive == InitWith(LiveIntervals) /\ [][NextLive]_vars /\ Fairness

\* Some call is in progress.
InCall == \E p \in LiveCallers : pc[p] # "idle"

\* C12: every Add, Get and Len call in progress eventually returns, before
\* and after Stop and in every interleaving with the other caller and the
\* reaper, and whenever a call is in progress some call or the sweep that
\* holds the lock can take a step (no deadlock).
C12_CallsReturn ==
    /\ \A p \in LiveCallers : (pc[p] # "idle") ~> (pc[p] = "idle")
    /\ [](InCall => ENABLED ((\E p \in LiveCallers : CallSteps(p))
                               \/ reapExpired(Reaper)))

\* A writer waits for a reader to leave after the reaper has terminated.
C12_Witness ==
    /\ pc[Reaper] = "exited"
    /\ pc[Main] = "add_lockwait"
    /\ "w1" \in mu.readers

\* The reaper is blocked in its select: no tick to receive, stopChan open.
ReaperBlocked == pc[Reaper] = "select" /\ tickerC = 0 /\ stopChan = "open"

\* C13: once Stop has closed stopChan the reaper loop eventually returns;
\* while it runs, the loop can take no step when there is neither a tick nor
\* the stop signal, and it leaves its select only by receiving a tick (to run
\* one sweep) or the stop signal (to return).
C13_ReaperTerminates ==
    /\ (stopChan = "closed") ~> (pc[Reaper] = "exited")
    /\ [](ReaperBlocked => ~ENABLED reapLoop)
    /\ [][pc[Reaper] = "select" /\ pc'[Reaper] # "select" =>
            \/ tickerC = 1 /\ tickerC' = 0 /\ pc'[Reaper] = "reap_now"
            \/ stopChan = "closed" /\ pc'[Reaper] = "exited"]_vars

\* Stop was called during a sweep; the sweep completed and the loop returned.
C13_Witness ==
    /\ stopChan = "closed"
    /\ pc[Reaper] = "exited"
    /\ swept.set /\ swept.now > 0

\* NewCache returns at time 0 of the clock.
ConstructedAt == 0
\* The reaper is inside reapExpired and has read the clock.
ReaperSweeping == pc[Reaper] \in {"reap_lock", "reap_lockwait", "reap_range"}

\* C14 as stated: the n-th tick is due at construction time + n * interval.
C14_Original ==
    TickerRunning =>
        \E k \in 1..(MaxTime + 1) : nextTick = ConstructedAt + k * interval

\* C14 amended: no background sweep reads a time earlier than construction
\* time + interval; the first tick is due one interval after the reaper
\* goroutine creates its ticker, every later tick one interval after the one
\* before, and a tick is delivered exactly when the clock reaches its due time.
C14_TickSchedule ==
    /\ [](/\ pc[Reaper] = "reap_now" => now >= ConstructedAt + interval
          /\ ReaperSweeping => rnow[Reaper] >= ConstructedAt + interval
          /\ TickerRunning => nextTick > now)
    /\ [][/\ nextTick' # nextTick =>
                \/ /\ pc[Reaper] = "start" /\ pc'[Reaper] = "select"
                   /\ nextTick' = now + interval
                \/ /\ TickerRunning
                   /\ now' = nextTick /\ tickerC' = 1
                   /\ nextTick' = nextTick + interval
          /\ tickerC = 0 /\ tickerC' = 1 => now' = nextTick]_vars

\* The reaper created its ticker after construction time, received its first
\* tick and is in its first sweep.
C14_Witness ==
    /\ ReaperSweeping
    /\ nextTick % interval # 0
    /\ rnow[Reaper] > ConstructedAt + interval

\* C15: no step changes what GetInterval returns, so it stays the value
\* NewCache was given; an entry leaves the map only in a sweep that found it
\* older than that value, and successive ticks are that value apart.
C15_IntervalFixed ==
    [][/\ GetInterval' = GetInterval
       /\ \A k \in DOMAIN cache :
            k \notin DOMAIN cache' =>
                \E p \in Procs :
                    /\ pc[p] = "reap_range"
                    /\ rnow[p] - cache[k].CreatedAt > GetInterval
       /\ \A k \in DOMAIN cache :
            (\E p \in Procs : pc[p] = "reap_range" /\ k \in todo[p]
                              /\ k \notin todo'[p]
                              /\ rnow[p] - cache[k].CreatedAt > GetInterval)
                => k \notin DOMAIN cache'
       /\ TickerRunning /\ nextTick' # nextTick =>
            nextTick' - nextTick = GetInterval]_vars

\* After an Add, a sweep that removed an entry, a second tick coming due and
\* a Stop, GetInterval still returns the constructor's value.
C15_Witness ==
    /\ GetInterval \in Intervals
    /\ stopChan = "closed"
    /\ \E k \in Keys : hist[k].reaped
    /\ nextTick >= 2 * GetInterval

\* C16: the CreatedAt of a stored entry is the clock reading Add took when it
\* was called, which is neither the zero time nor later than any time up to
\* Add's return; once stored it changes only when an Add stores that key
\* again (or the entry is removed).
C16_CreatedAt ==
    /\ [](\A k \in DOMAIN cache :
            /\ cache[k].CreatedAt # ZeroTime
            /\ cache[k].CreatedAt >= ConstructedAt
            /\ cache[k].CreatedAt <= now)
    /\ [][/\ \A t \in Callers :
              /\ pc[t] = "idle" /\ pc'[t] = "add_lock" =>
                   ce'[t].CreatedAt = now
              /\ pc[t] = "add_store" /\ pc'[t] = "add_unlock" =>
                   /\ cache'[key[t]].CreatedAt = ce[t].CreatedAt
                   /\ ce[t].CreatedAt <= now
              /\ pc[t] = "add_unlock" /\ pc'[t] = "idle" =>
                   /\ cache[key[t]].CreatedAt = ce[t].CreatedAt
                   /\ ce[t].CreatedAt <= now
          /\ \A k \in DOMAIN cache \cap DOMAIN cache' :
               \/ cache'[k].CreatedAt = cache[k].CreatedAt
               \/ \E t \in Callers : pc[t] = "add_store" /\ key[t] = k]_vars

\* A sweep removed another key and left k, stored before the sweep, as stored.
C16_Witness ==
    \E k \in DOMAIN cache, k2 \in Keys \ DOMAIN cache :
        /\ hist[k2].reaped
        /\ swept.set
        /\ cache[k].CreatedAt < swept.now
        /\ cache[k] = HistEntry(k)

\* ---------------------------------------------------------------- SpecRace
\* One Add and one reapExpired, called by two goroutines so that the calls
\* overlap: whichever is called second is called while the other is still in
\* progress.  prog[w].j counts the calls w has made.
Adder == "w1"
Sweeper == "w2"
RaceKey == WorkerKey(Adder, 0)
RaceValue == WorkerValue(Adder, 0)
NotCalled(w) == prog[w].j = 0
InProgress(w) == pc[w] # "idle"
Returned(w) == prog[w].j = 1 /\ pc[w] = "idle"

RaceAdd ==
    /\ NotCalled(Adder)
    /\ NotCalled(Sweeper) \/ InProgress(Sweeper)
    /\ AddCall(Adder, RaceKey, RaceValue)
    /\ prog' = [prog EXCEPT ![Adder].j = 1]
    /\ UNCHANGED mainVars

RaceReap ==
    /\ NotCalled(Sweeper)
    /\ NotCalled(Adder) \/ InProgress(Adder)
    /\ ReapCall(Sweeper)
    /\ prog' = [prog EXCEPT ![Sweeper].j = 1]
    /\ UNCHANGED mainVars

NextRace ==
    \/ Tick
    \/ RaceAdd
    \/ AddLock(Adder)
    \/ AddAcquire(Adder)
    \/ AddStore(Adder)
    \/ AddUnlock(Adder)
    \/ RaceReap
    \/ reapExpired(Sweeper)

SpecRace == Init /\ [][NextRace]_vars

\* The Add and the sweep have both returned.
BothReturned == Returned(Adder) /\ Returned(Sweeper)
\* The sweep ranged over the map after the Add's store, and the stored entry
\* was older than interval at the sweep's now.
SweptAsExpired(k) == swept.set /\ Age(HistEntry(k), swept.now) > interval

\* C17 as stated: once an Add and a sweep that overlapped have both returned,
\* the key is present with the value added.
C17_Original ==
    BothReturned =>
        /\ MapLookup(cache, RaceKey).ok
        /\ cache[RaceKey].Val = RaceValue

\* C17 amended: once both have returned the key is present with the value
\* added and the timestamp the Add captured, unless the sweep ranged over the
\* map after the store and found the entry older than interval by the
\* timestamp the Add had captured; then the key is absent.
C17_InsertSurvives ==
    BothReturned =>
        IF SweptAsExpired(RaceKey)
        THEN ~MapLookup(cache, RaceKey).ok
        ELSE /\ MapLookup(cache, RaceKey).ok
             /\ cache[RaceKey].Val = RaceValue
             /\ cache[RaceKey] = HistEntry(RaceKey)

\* The Add captured its timestamp, the sweep read a later clock, the Add
\* stored first and the sweep then kept the entry.
C17_Witness ==
    /\ BothReturned
    /\ swept.set /\ swept.now > hist[RaceKey].CreatedAt
    /\ MapLookup(cache, RaceKey).ok

\* ---------------------------------------------------------------- SpecReaders
\* One goroutine adds entries; another reads with Get, Len and GetCacheMap
\* while the reaper sweeps.
Reader == "w1"

ReadersAdd ==
    \/ \E k \in Keys : AddCall(Main, k, LiveValue) /\ UNCHANGED <<prog, mainVars>>
    \/ AddLock(Main)
    \/ AddAcquire(Main)
    \/ AddStore(Main)
    \/ AddUnlock(Main)

NextReaders ==
    \/ Tick
    \/ ReadersAdd
    \/ Get(Reader)
    \/ CacheLen(Reader)
    \/ GetCacheMap(Reader)
    \/ reapLoopRunning

SpecReaders == Init /\ [][NextReaders]_vars

\* t holds the read lock and is about to read the map, or has read it.
Reading(t) == pc[t] \in {"get_read", "len_read", "map_copy"}
HasRead(t) == pc[t] \in {"get_runlock", "len_runlock", "map_runlock"}
\* A sweep is inside its range over the map.
SweepInRange == \E p \in Procs : pc[p] = "reap_range"
\* A sweep has removed some of the entries it will remove, not all.
PartlySwept ==
    \E p \in Procs :
        /\ pc[p] = "reap_range"
        /\ cache # snap[p]
        /\ \E k \in todo[p] \cap DOMAIN cache : Expired(cache[k], rnow[p])

\* C18: a Get, Len or GetCacheMap reads the map only while no sweep is inside
\* its range, and what it has read is the whole map as it stands until the
\* reader releases the lock: never a partly swept map.
C18_SweepAtomic ==
    \A t \in Callers :
        /\ Reading(t) \/ HasRead(t) => ~SweepInRange /\ ~PartlySwept
        /\ pc[t] = "get_runlock" => entry[t] = MapLookup(cache, key[t])
        /\ pc[t] = "len_runlock" => n[t] = Cardinality(DOMAIN cache)
        /\ pc[t] = "map_runlock" => cacheCopy[t] = cache

\* GetCacheMap was called while a sweep has removed one of two expired
\* entries: the reader waits in RLock.
C18_Witness ==
    /\ PartlySwept
    /\ pc[Reader] = "map_rlock"

\* ---------------------------------------------------------------- SpecLocks
\* Two goroutines call Add, Get, Len and GetCacheMap on one key while the
\* reaper sweeps: up to three writers and two readers contend for the lock.
LocksCall(p) ==
    \/ LiveCall(p)
    \/ MapCall(p) /\ UNCHANGED <<prog, mainVars>>

NextLocks ==
    \/ Tick
    \/ \E p \in LiveCallers : LocksCall(p)
    \/ \E p \in LiveCallers : CallSteps(p)
    \/ \E p \in LiveCallers : MapRLock(p) \/ MapCopy(p) \/ MapRUnlock(p)
    \/ reapLoopRunning

SpecLocks == InitWith(LiveIntervals) /\ [][NextLocks]_vars

\* p is between Lock and Unlock: Add around its store, a sweep in its range.
WriteSection(p) == pc[p] \in {"add_store", "add_unlock", "reap_range"}
\* p is between RLock and RUnlock.
ReadSection(p) == Reading(p) \/ HasRead(p)

\* C19: a goroutine between Lock and Unlock holds the lock alone, with no
\* other goroutine between Lock and Unlock or between RLock and RUnlock;
\* goroutines between RLock and RUnlock hold it together with readers only;
\* and the map is written only by the goroutine holding the write lock and
\* read only by a goroutine holding the read lock.
C19_LockDiscipline ==
    /\ [](\A p \in Procs :
            /\ WriteSection(p) =>
                 /\ mu.writer = p /\ mu.held /\ mu.readers = {}
                 /\ \A q \in Procs \ {p} : ~WriteSection(q) /\ ~ReadSection(q)
            /\ ReadSection(p) =>
                 /\ p \in mu.readers /\ ~mu.held
                 /\ \A q \in Procs : ~WriteSection(q))
    /\ [][/\ cache' # cache =>
               \E p \in Procs : WriteSection(p) /\ mu.writer = p /\ mu.held
          /\ \A p \in Procs :
               (entry'[p] # entry[p] /\ entry'[p] # NoEntry)
               \/ (n'[p] # n[p] /\ pc'[p] = "len_runlock")
               \/ (cacheCopy'[p] # cacheCopy[p] /\ pc'[p] = "map_runlock")
                   => p \in mu.readers /\ ~mu.held]_vars

\* Two readers hold the lock together while the reaper waits for it.
C19_Witness ==
    /\ Reading(Main) /\ HasRead("w1")
    /\ pc[Reaper] = "reap_lock"

\* ---------------------------------------------------------------- SpecAdds
\* Two goroutines each call Add once, on the same key with values of their
\* own, in any interleaving and at any times.
RaceAddOf(w) ==
    /\ NotCalled(w)
    /\ AddCall(w, RaceKey, WorkerValue(w, 0))
    /\ prog' = [prog EXCEPT ![w].j = 1]
    /\ UNCHANGED mainVars

NextAdds ==
    \/ Tick
    \/ \E w \in Workers : RaceAddOf(w)
    \/ \E w \in Workers : AddLock(w)
    \/ \E w \in Workers : AddAcquire(w)
    \/ \E w \in Workers : AddStore(w)
    \/ \E w \in Workers : AddUnlock(w)

SpecAdds == Init /\ [][NextAdds]_vars

\* w is inside Add.
InAdd(w) == pc[w] \in {"add_lock", "add_lockwait", "add_store", "add_unlock"}
BothAdded == \A w \in Workers : Returned(w)

\* C20: each Add builds its pair (the clock at its call, its value) and
\* keeps it until it returns; the map changes only by an Add storing its own
\* pair whole under the key; so once both Adds have returned the key is
\* present and its entry is the pair of the Add that stored last.
C20_LastWriterWins ==
    /\ [](BothAdded =>
            /\ MapLookup(cache, RaceKey).ok
            /\ cache[RaceKey] = HistEntry(RaceKey)
            /\ \E w \in Workers : cache[RaceKey].Val = WorkerValue(w, 0))
    /\ [][/\ \A w \in Workers :
              /\ pc[w] = "idle" /\ pc'[w] = "add_lock" =>
                   ce'[w] = [CreatedAt |-> now, Val |-> WorkerValue(w, 0)]
              /\ InAdd(w) /\ InAdd(w)' => ce'[w] = ce[w]
          /\ cache' # cache =>
               \E w \in Workers :
                   /\ pc[w] = "add_store"
                   /\ DOMAIN cache' = {RaceKey}
                   /\ cache'[RaceKey] = ce[w]]_vars

\* w1 read the clock first, w2 stored first, and w1 has just overwritten
\* w2's newer entry with its own pair.
C20_Witness ==
    /\ pc["w1"] = "add_unlock"
    /\ MapLookup(old["w1"], RaceKey).ok
    /\ old["w1"][RaceKey].CreatedAt > ce["w1"].CreatedAt
    /\ cache[RaceKey] = ce["w1"]

\* ======================================================================
\* package main
\* ======================================================================

\* ---------------------------------------------------------------- makeRequest
\* makeRequest(u) asks the cache first.
RequestCall(t, u) ==
    /\ mr.pc \in {"idle", "done"}
    /\ GetCall(t, u)
    /\ url' = u
    /\ body' = NilBytes
    /\ mr' = [pc |-> "get", found |-> FALSE, data |-> NilBytes, err |-> "nil",
              requests |-> 0, before |-> cache,
              prev |-> IF mr.pc = "done"
                       THEN [url |-> url, data |-> mr.data, ok |-> mr.err = "nil"]
                       ELSE NoPrev]

\* Mutant of RequestFound: the cache's answer is ignored.
RequestFoundIgnored(t) ==
    /\ mr.pc = "get"
    /\ GetReturn(t)
    /\ mr' = [mr EXCEPT !.pc = "http"]
    /\ UNCHANGED <<nextURL, previousURL, cmd, url, body, text, res>>

\* cache.Get returns: a hit is returned, a miss goes on to the network.
RequestFound(t) ==
    /\ mr.pc = "get"
    /\ GetReturn(t)
    /\ mr' = IF GetResult(entry[t])[2]
             THEN [mr EXCEPT !.pc = "done", !.found = TRUE,
                             !.data = GetResult(entry[t])[1]]
             ELSE [mr EXCEPT !.pc = "http"]
    /\ UNCHANGED <<nextURL, previousURL, cmd, url, body, text, res>>

\* Mutant of HTTPGet: the body is cached before the status is checked.
HTTPGetCachesFirst(t) ==
    /\ Call(t) /\ mr.pc = "http"
    /\ \E o \in Outcomes, b \in Bodies :
          IF o = "ok"
          THEN /\ body' = b
               /\ mr' = [mr EXCEPT !.pc = "store", !.requests = @ + 1]
               /\ cache' = cache
          ELSE /\ body' = NilBytes
               /\ mr' = [mr EXCEPT !.pc = "done", !.err = o, !.requests = @ + 1]
               /\ cache' = IF o = "bad status"
                           THEN MapStore(cache, url, CacheEntry(now, b))
                           ELSE cache
    /\ UNCHANGED <<interval, cacheCopy, mu, stopChan, now, tickerC, nextTick, pc,
                   key, val, ce, entry, rnow, todo, n, panicked, hist, snap, old, prog,
                   nextURL, previousURL, cmd, url, text, res, swept>>

\* http.Get, the status check and io.ReadAll: the server's answer is any outcome.
HTTPGet(t) ==
    /\ Call(t) /\ mr.pc = "http"
    /\ \E o \in Outcomes, b \in Bodies :
          IF o = "ok"
          THEN /\ body' = b
               /\ mr' = [mr EXCEPT !.pc = "store", !.requests = @ + 1]
          ELSE /\ body' = NilBytes
               /\ mr' = [mr EXCEPT !.pc = "done", !.err = o, !.requests = @ + 1]
    /\ UNCHANGED <<cache, interval, cacheCopy, mu, stopChan, now, tickerC, nextTick, pc,
                   key, val, ce, entry, rnow, todo, n, panicked, hist, snap, old, prog,
                   nextURL, previousURL, cmd, url, text, res, swept>>

\* cache.Add(url, body)
RequestStore(t) ==
    /\ mr.pc = "store"
    /\ AddCall(t, url, body)
    /\ mr' = [mr EXCEPT !.pc = "add"]
    /\ UNCHANGED <<prog, nextURL, previousURL, cmd, url, body, text, res>>

\* return body, nil
RequestReturn(t) ==
    /\ Call(t) /\ mr.pc = "add"
    /\ mr' = [mr EXCEPT !.pc = "done", !.data = body]
    /\ UNCHANGED <<cache, interval, cacheCopy, mu, stopChan, now, tickerC, nextTick, pc,
                   key, val, ce, entry, rnow, todo, n, panicked, hist, snap, old, prog,
                   nextURL, previousURL, cmd, url, body, text, res, swept>>

\* The steps of a makeRequest in progress.
makeRequest(t) ==
    \/ GetRLock(t)
    \/ GetRead(t)
    \/ RequestFound(t)
    \/ HTTPGet(t)
    \/ RequestStore(t)
    \/ AddLock(t)
    \/ AddAcquire(t)
    \/ AddStore(t)
    \/ AddUnlock(t)
    \/ RequestReturn(t)

\* The program's requests: makeRequest is the cache's only caller.
NextRequest ==
    \/ Tick
    \/ reapLoopRunning
    \/ \E u \in URLs :
          RequestCall(Main, u) /\ UNCHANGED <<prog, nextURL, previousURL, cmd, text, res>>
    \/ makeRequest(Main)

SpecRequest == Init /\ [][NextRequest]_vars

\* ======================================================================
\* Claims about package main
\* ======================================================================

\* makeRequest has returned.
RequestDone == mr.pc = "done"
\* makeRequest returned without an error.
RequestOK == RequestDone /\ mr.err = "nil"

\* C21: makeRequest asks the cache before the network and issues at most one
\* request, none on a hit; a hit returns the cached bytes; a miss followed by
\* a successful fetch returns the body and stores it under the requested URL
\* and no other; and the next makeRequest for the same URL, the entry not
\* having been swept in between, is a hit that returns the same bytes.
C21_CacheAside ==
    /\ [](/\ mr.pc = "get" => mr.requests = 0
          /\ mr.requests > 0 => ~mr.found
          /\ mr.requests <= 1
          /\ RequestDone /\ mr.found =>
                /\ mr.err = "nil"
                /\ mr.data = Norm(hist[url].Val)
          /\ RequestDone /\ ~mr.found => mr.requests = 1
          /\ RequestOK /\ ~mr.found =>
                /\ mr.data = body
                /\ hist[url].set /\ hist[url].Val = body)
    /\ [][/\ cache' # cache /\ pc[Main] = "add_store" =>
                /\ url \in DOMAIN cache' /\ cache'[url].Val = body
                /\ \A k \in DOMAIN cache' \ {url} : k \in DOMAIN cache /\ cache'[k] = cache[k]
          /\ mr.pc = "get" /\ mr'.pc # "get" /\ mr.prev.ok /\ mr.prev.url = url /\ Live(url) =>
                /\ mr'.pc = "done" /\ mr'.found
                /\ mr'.data = mr.prev.data]_vars

\* A request that stored the body it fetched is followed by a hit for the
\* same URL that returns those bytes.
C21_Witness ==
    /\ RequestDone /\ mr.found /\ mr.requests = 0
    /\ mr.prev.ok /\ mr.prev.url = url
    /\ mr.data = mr.prev.data /\ mr.data = Bytes(<<1>>)

\* ---------------------------------------------------------------- cleanInput
\* A string is a sequence of characters; the characters of the inputs are a
\* space, a tab, a lower-case letter and an upper-case letter.
Chars == {" ", "\t", "a", "B"}
MaxLen == 5
Inputs == UNION {[1..m -> Chars] : m \in 0..MaxLen}

\* strings.ToLower
Lower(c) == IF c = "B" THEN "b" ELSE c
ToLower(s) == [i \in 1..Len(s) |-> Lower(s[i])]

\* strings.TrimSpace: leading and trailing white space is cut off.
IsSpace(c) == c \in {" ", "\t"}
RECURSIVE TrimLeft(_)
TrimLeft(s) == IF s # <<>> /\ IsSpace(Head(s)) THEN TrimLeft(Tail(s)) ELSE s
RECURSIVE TrimRight(_)
TrimRight(s) ==
    IF s # <<>> /\ IsSpace(s[Len(s)]) THEN TrimRight(SubSeq(s, 1, Len(s) - 1)) ELSE s
TrimSpace(s) == TrimRight(TrimLeft(s))

\* strings.Contains and strings.ReplaceAll: the non-overlapping occurrences
\* of o, found from the left, are replaced by r.
HasPrefix(s, o) == Len(s) >= Len(o) /\ SubSeq(s, 1, Len(o)) = o
Contains(s, o) == \E i \in 1..(Len(s) + 1) : HasPrefix(SubSeq(s, i, Len(s)), o)
RECURSIVE ReplaceAll(_, _, _)
ReplaceAll(s, o, r) ==
    IF s = <<>> THEN <<>>
    ELSE IF HasPrefix(s, o) THEN r \o ReplaceAll(SubSeq(s, Len(o) + 1, Len(s)), o, r)
    ELSE <<Head(s)>> \o ReplaceAll(Tail(s), o, r)

\* The loop of trimMultipleSpaces, stop being its counter.
RECURSIVE TrimLoop(_, _)
TrimLoop(t, stop) ==
    IF ~Contains(t, <<" ", " ">>) THEN t
    ELSE LET t2 == ReplaceAll(t, <<" ", " ">>, <<" ">>)
         IN  IF stop > 100 THEN t2 ELSE TrimLoop(t2, stop + 1)

\* Mutant of trimMultipleSpaces: one pass of ReplaceAll.
trimMultipleSpacesOnce(t) == ReplaceAll(t, <<" ", " ">>, <<" ">>)

trimMultipleSpaces(t) == TrimLoop(t, 0)

\* strings.Split(s, " "): the pieces between the separators, empty ones included.
RECURSIVE Split(_, _)
Split(s, sep) ==
    IF \A i \in 1..Len(s) : s[i] # sep THEN <<s>>
    ELSE LET i == CHOOSE j \in 1..Len(s) : s[j] = sep /\ \A h \in 1..(j - 1) : s[h] # sep
         IN  <<SubSeq(s, 1, i - 1)>> \o Split(SubSeq(s, i + 1, Len(s)), sep)

cleanInput(t) ==
    LET t1 == ToLower(t)
        t2 == TrimSpace(t1)
        t3 == trimMultipleSpaces(t2)
    IN  IF t3 = <<>> \/ t3 = <<" ">> THEN <<>> ELSE Split(t3, " ")

\* cleanInput is called with some text.
CleanInputCall ==
    /\ cmd.pc = "idle"
    /\ \E t \in Inputs : text' = t
    /\ res' = <<>>
    /\ cmd' = [cmd EXCEPT !.pc = "input"]
    /\ UNCHANGED <<cache, interval, cacheCopy, mu, stopChan, now, tickerC, nextTick, pc,
                   key, val, ce, entry, rnow, todo, n, panicked, hist, snap, old, prog,
                   nextURL, previousURL, url, body, mr, swept>>

\* cleanInput returns res.
CleanInputReturn ==
    /\ cmd.pc = "input"
    /\ res' = cleanInput(text)
    /\ cmd' = [cmd EXCEPT !.pc = "words"]
    /\ UNCHANGED <<cache, interval, cacheCopy, mu, stopChan, now, tickerC, nextTick, pc,
                   key, val, ce, entry, rnow, todo, n, panicked, hist, snap, old, prog,
                   nextURL, previousURL, url, body, mr, text, swept>>

NextClean ==
    \/ CleanInputCall
    \/ CleanInputReturn

SpecClean == Init /\ [][NextClean]_vars

\* cleanInput has returned res for text.
Cleaned == cmd.pc = "words"
\* The text between the first and the last character that is not white
\* space, lower-cased.
Core(t) ==
    LET ink == {i \in 1..Len(t) : ~IsSpace(t[i])}
    IN  IF ink = {} THEN <<>>
        ELSE LET first == CHOOSE i \in ink : \A j \in ink : i <= j
                 last == CHOOSE i \in ink : \A j \in ink : j <= i
             IN  [i \in 1..(last - first + 1) |-> Lower(t[first + i - 1])]
\* The positions of s where a word starts, and the word that starts at i.
WordStarts(s) == {i \in 1..Len(s) : s[i] # " " /\ (i = 1 \/ s[i - 1] = " ")}
WordAt(s, i) ==
    LET e == CHOOSE j \in i..Len(s) :
                 /\ \A h \in i..j : s[h] # " "
                 /\ j = Len(s) \/ s[j + 1] = " "
    IN  SubSeq(s, i, e)
\* The words of s in order.
Words(s) ==
    [k \in 1..Cardinality(WordStarts(s)) |->
        WordAt(s, CHOOSE i \in WordStarts(s) :
                      Cardinality({j \in WordStarts(s) : j <= i}) = k)]

\* C22: cleanInput returns the words of its input, lower-cased and in order,
\* the words being the maximal runs without a space of the text between the
\* first and last character that is not white space; no word is empty, and
\* an empty or white-space-only input gives the empty list.
C22_CleanInput ==
    Cleaned =>
        /\ res = Words(Core(text))
        /\ \A k \in 1..Len(res) : res[k] # <<>> /\ \A i \in 1..Len(res[k]) : res[k][i] # "B"
        /\ (\A i \in 1..Len(text) : IsSpace(text[i])) => res = <<>>

\* An input of an upper-case word, a run of three spaces and a second word.
C22_Witness ==
    /\ Cleaned
    /\ text = <<"B", " ", " ", " ", "a">>
    /\ res = <<<<"b">>, <<"a">>>>

\* C23: a Get of a key that is in the map returns its value and true whatever
\* the entry's age, also when the age already exceeds interval and no sweep
\* has removed the entry yet.
C23_LookupIgnoresAge ==
    [][\A t \in Callers :
          pc[t] = "get_read" /\ pc'[t] = "get_runlock" /\ key[t] \in DOMAIN cache =>
              GetResult(entry'[t]) = <<Norm(cache[key[t]].Val), TRUE>>]_vars

\* A Get has found an entry that is older than interval.
C23_Witness ==
    /\ GetDone(Main)
    /\ key[Main] \in DOMAIN cache
    /\ Age(cache[key[Main]], now) > interval
    /\ GetResult(entry[Main])[2]

\* The positions of a caller inside Get and inside Len.
ReadPositions == {"get_rlock", "get_read", "get_runlock",
                  "len_rlock", "len_read", "len_runlock"}
\* t takes a step of a Get or Len call, the call and the return included.
ReadStep(t) == pc'[t] # pc[t] /\ (pc[t] \in ReadPositions \/ pc'[t] \in ReadPositions)

\* C24: no step of a Get or Len call changes the map: the keys, the values
\* and every createdAt stay as they are, so a Get does not refresh the
\* timestamp of the entry it reads.
C24_ReadOnly ==
    [][\A t \in Callers : ReadStep(t) => cache' = cache /\ hist' = hist]_vars

\* A Get has read an entry some time after its insertion, and the entry still
\* carries the timestamp of its insertion.
C24_Witness ==
    /\ GetDone(Main) /\ entry[Main].ok
    /\ key[Main] \in DOMAIN cache
    /\ cache[key[Main]] = HistEntry(key[Main])
    /\ cache[key[Main]].CreatedAt < now

\* ---------------------------------------------------------------- SpecRefresh
\* One goroutine adds LiveKey again and again, a second one reads it, the
\* reaper runs.  From the first Add call on, the clock does not pass interval
\* beyond the latest Add call's timestamp before the next Add is called: the
\* key is re-added at gaps of at most interval.  prog[Adder].j counts the Add
\* calls up to two.
Getter == "w2"
InAddCall(t) == pc[t] \in {"add_lock", "add_acquire", "add_store", "add_unlock"}
Inserted(k) == hist[k].set
LastAdd(k) == IF InAddCall(Adder) /\ key[Adder] = k THEN ce[Adder].CreatedAt
              ELSE hist[k].CreatedAt

RefreshAdd ==
    /\ AddCall(Adder, LiveKey, LiveValue)
    /\ prog' = [prog EXCEPT ![Adder].j = IF @ < 2 THEN @ + 1 ELSE @]
    /\ UNCHANGED mainVars

RefreshTick ==
    /\ prog[Adder].j > 0 => now + 1 - LastAdd(LiveKey) <= interval
    /\ Tick

NextRefresh ==
    \/ RefreshTick
    \/ RefreshAdd
    \/ AddLock(Adder)
    \/ AddAcquire(Adder)
    \/ AddStore(Adder)
    \/ AddUnlock(Adder)
    \/ GetCall(Getter, LiveKey) /\ UNCHANGED <<prog, mainVars>>
    \/ GetRLock(Getter)
    \/ GetRead(Getter)
    \/ GetRUnlock(Getter)
    \/ reapLoopRunning

SpecRefresh == InitWith(LiveIntervals) /\ [][NextRefresh]_vars

RequestFailed == RequestDone /\ mr.err # "nil"

\* C26: a makeRequest that fails (request error, status other than 200, read
\* error) returns no data and stores nothing: no step of the call up to the
\* failure changes the map, and when it has returned the requested URL has
\* no entry and every entry of the map is an entry the map held when the
\* call began, unchanged.
C26_FailureStoresNothing ==
    /\ [](RequestFailed =>
            /\ mr.data = NilBytes
            /\ mr.requests = 1
            /\ url \notin DOMAIN cache
            /\ \A k \in DOMAIN cache :
                  k \in DOMAIN mr.before /\ cache[k] = mr.before[k])
    /\ [][mr.pc \in {"get", "http"} /\ (mr' # mr \/ pc'[Main] # pc[Main]) =>
              cache' = cache /\ hist' = hist]_vars

\* A request for one URL failed on the status while the other URL's entry
\* stayed cached as it was.
C26_Witness ==
    /\ RequestFailed /\ mr.err = "bad status"
    /\ mr.before # EmptyMap
    /\ cache = mr.before

\* ---------------------------------------------------------------- SpecIntervals
\* NewCache is called with any interval, a non-positive one included, and the
\* caller then uses Add, Get and Len (Stop is never called).
AnyIntervals == {-1, 0} \cup Intervals

NextIntervals ==
    \/ Tick
    \/ Add(Main)
    \/ Get(Main)
    \/ CacheLen(Main)
    \/ reapLoopRunning

SpecIntervals == InitWith(AnyIntervals) /\ [][NextIntervals]_vars

\* C27: a cache constructed with a non-positive interval never makes the
\* process panic.
C27_NoCrash == interval <= 0 => ~panicked

\* ---------------------------------------------------------------- commandMap, commandMapB
\* json.Unmarshal into LocationAreasResponse: an empty body is no JSON; the
\* other bodies are the first page (next b, no previous) and the second page
\* (no next, previous a).
DecodeOK(b) == b # EmptyBytes /\ ~b.isNil
Decode(b) ==
    IF b = Bytes(<<1>>) THEN [Next |-> "b", Previous |-> NilURL]
    ELSE [Next |-> NilURL, Previous |-> "a"]

\* A command is started: cmd keeps its name and the links it found.
Started(name) ==
    [pc |-> "request", name |-> name, nextURL |-> nextURL, previousURL |-> previousURL]

\* commandMap up to its makeRequest: the next page, or the first one.
CommandMapCall ==
    /\ cmd.pc \in {"idle", "returned"}
    /\ RequestCall(Main, IF nextURL # NilURL THEN nextURL ELSE BaseURL)
    /\ cmd' = Started("map")
    /\ UNCHANGED <<prog, nextURL, previousURL, text, res>>

\* commandMapB up to its makeRequest; on the first page it returns at once.
CommandMapBCall ==
    /\ cmd.pc \in {"idle", "returned"}
    /\ IF previousURL = NilURL
       THEN /\ Call(Main)
            /\ cmd' = [Started("mapb") EXCEPT !.pc = "returned"]
            /\ UNCHANGED <<cache, interval, cacheCopy, mu, stopChan, now, tickerC,
                           nextTick, pc, key, val, ce, entry, rnow, todo, n, panicked,
                           hist, snap, old, prog, nextURL, previousURL, url, body, mr,
                           text, res, swept>>
       ELSE /\ RequestCall(Main, previousURL)
            /\ cmd' = Started("mapb")
            /\ UNCHANGED <<prog, nextURL, previousURL, text, res>>

\* Mutant of CommandReturn: the links are assigned before the error checks.
CommandReturnEager ==
    /\ cmd.pc = "request" /\ mr.pc = "done"
    /\ nextURL' = Decode(mr.data).Next
    /\ previousURL' = Decode(mr.data).Previous
    /\ cmd' = [cmd EXCEPT !.pc = "returned"]
    /\ UNCHANGED <<cache, interval, cacheCopy, mu, stopChan, now, tickerC, nextTick, pc,
                   key, val, ce, entry, rnow, todo, n, panicked, hist, snap, old, prog,
                   url, body, mr, text, res, swept>>

\* makeRequest has returned: the error checks, json.Unmarshal, the
\* assignment of the links, and the return.
CommandReturn ==
    /\ cmd.pc = "request" /\ mr.pc = "done"
    /\ IF mr.err = "nil" /\ DecodeOK(mr.data)
       THEN /\ nextURL' = Decode(mr.data).Next
            /\ previousURL' = Decode(mr.data).Previous
       ELSE UNCHANGED <<nextURL, previousURL>>
    /\ cmd' = [cmd EXCEPT !.pc = "returned"]
    /\ UNCHANGED <<cache, interval, cacheCopy, mu, stopChan, now, tickerC, nextTick, pc,
                   key, val, ce, entry, rnow, todo, n, panicked, hist, snap, old, prog,
                   url, body, mr, text, res, swept>>

\* The user pages forth and back while the reaper runs.
NextMap ==
    \/ Tick
    \/ reapLoopRunning
    \/ CommandMapCall
    \/ CommandMapBCall
    \/ makeRequest(Main)
    \/ CommandReturn

SpecMap == Init /\ [][NextMap]_vars

\* The command has returned.
CommandDone == cmd.pc = "returned"
\* The command was mapb with no previous page.
FirstPage == cmd.name = "mapb" /\ cmd.previousURL = NilURL
\* The command fetched a page and decoded it.
PageDecoded == ~FirstPage /\ RequestOK /\ DecodeOK(mr.data)

\* C28: nextURL and previousURL change only when a map or mapb command
\* returns with a fetched and decoded page, and then they are that page's
\* next and previous links; a command that returns otherwise (mapb without a
\* previous page, failed request, body that does not decode) leaves both as
\* it found them, and mapb without a previous page makes no request.
C28_Pagination ==
    /\ [](CommandDone =>
            IF PageDecoded
            THEN /\ nextURL = Decode(mr.data).Next
                 /\ previousURL = Decode(mr.data).Previous
            ELSE /\ nextURL = cmd.nextURL
                 /\ previousURL = cmd.previousURL)
    /\ [][/\ <<nextURL, previousURL>>' # <<nextURL, previousURL>> =>
                cmd.pc = "request" /\ CommandDone' /\ PageDecoded'
          /\ cmd' # cmd /\ CommandDone' /\ FirstPage' =>
                mr' = mr /\ pc' = pc /\ cache' = cache]_vars

\* A mapb from the second page has fetched the first page and taken its links.
C28_Witness ==
    /\ CommandDone /\ cmd.name = "mapb" /\ cmd.previousURL = "a"
    /\ PageDecoded /\ mr.data = Bytes(<<1>>)
    /\ nextURL = "b" /\ previousURL = NilURL
====
